---------------------------- MODULE Spec2Model ----------------------------
(***************************************************************************)
(* Model of most_common_schedule_by_genre.py: the CSV record splitter, the *)
(* multi-line row reader, the genre list extractor, and the aggregation of *)
(* schedule counts per genre with the final choice of the most common one. *)
(*                                                                         *)
(* Text is modelled as a sequence of one-character strings, so that        *)
(* trimming, quoting, substring search and string ordering are computed    *)
(* character by character as the Python code computes them.                *)
(***************************************************************************)
EXTENDS Integers, Sequences, FiniteSets, TLC

VARIABLES
    lines,          \* the file: the raw lines the file object iterates over
    pos,            \* how many raw lines the row reader has consumed
    buffer,         \* iter_csv_rows: the accumulating buffer
    emitted,        \* iter_csv_rows: the records yielded so far, in order
    pc,             \* position of the running function
    header,         \* get_most_common_schedule_by_genre: header row
    genres_col,     \* <<>> for None, <<idx>> for a zero-based index
    schedule_col,   \* <<>> for None, <<idx>> for a zero-based index
    row,            \* the loop variable of "for row in rows" (<<>> before)
    counts,         \* genre -> (time -> count)
    result,         \* genre -> chosen time
    line,           \* split_csv_line: the argument
    fields_out,     \* split_csv_line: the returned list
    shape,          \* how the genre field under test was written
    genre_field,    \* extract_genres: the argument
    genres_out      \* extract_genres: the returned list

vars == << lines, pos, buffer, emitted, pc, header, genres_col, schedule_col,
           row, counts, result, line, fields_out, shape, genre_field,
           genres_out >>

---------------------------------------------------------------------------
(* Characters and the str methods the program uses.                        *)

DQ == "\""
SQ == "'"
COMMA == ","
SP == " "
NL == "\n"
TAB == "\t"
LBR == "["
RBR == "]"

\* The printable ASCII characters in code point order, from 32 (space); the
\* grave accent (96) cannot be written in a string and is spelled out.
Ascii ==
    << " ", "!", "\"", "#", "$", "%", "&", "'", "(", ")", "*", "+",
       ",", "-", ".", "/", "0", "1", "2", "3", "4", "5", "6", "7",
       "8", "9", ":", ";", "<", "=", ">", "?", "@", "A", "B", "C",
       "D", "E", "F", "G", "H", "I", "J", "K", "L", "M", "N", "O",
       "P", "Q", "R", "S", "T", "U", "V", "W", "X", "Y", "Z", "[",
       "\\", "]", "^", "_", "grave", "a", "b", "c", "d", "e", "f", "g",
       "h", "i", "j", "k", "l", "m", "n", "o", "p", "q", "r", "s",
       "t", "u", "v", "w", "x", "y", "z", "{", "|", "}", "~" >>

\* ord(c): the code point of a character.
Ord(c) ==
    IF c = NL THEN 10
    ELSE IF c = TAB THEN 9
    ELSE 31 + (CHOOSE k \in 1..Len(Ascii) : Ascii[k] = c)

\* str.lower() on one character: A-Z (65..90) map to a-z, the rest is kept.
LowerChar(c) ==
    LET n == Ord(c) IN
    IF n >= 65 /\ n <= 90 THEN Ascii[n + 32 - 31] ELSE c

\* str.lower()
Lower(s) == [k \in 1..Len(s) |-> LowerChar(s[k])]

\* The characters str.strip() with no argument removes.
Whitespace == {SP, TAB, NL}

\* s[i] with Python's zero-based index.
At(s, i) == s[i + 1]

RECURSIVE LStripSet(_, _)
\* str.lstrip(cs)
LStripSet(s, cs) ==
    IF s # <<>> /\ Head(s) \in cs THEN LStripSet(Tail(s), cs) ELSE s

RECURSIVE RStripSet(_, _)
\* str.rstrip(cs)
RStripSet(s, cs) ==
    IF s # <<>> /\ s[Len(s)] \in cs
    THEN RStripSet(SubSeq(s, 1, Len(s) - 1), cs)
    ELSE s

\* str.strip(cs)
StripSet(s, cs) == RStripSet(LStripSet(s, cs), cs)

\* str.strip()
Strip(s) == StripSet(s, Whitespace)

\* str.startswith(p) and str.endswith(p)
StartsWith(s, p) == Len(s) >= Len(p) /\ SubSeq(s, 1, Len(p)) = p
EndsWith(s, p) ==
    Len(s) >= Len(p) /\ SubSeq(s, Len(s) - Len(p) + 1, Len(s)) = p

\* "sub in s"
Contains(s, sub) ==
    \E k \in 0..(Len(s) - Len(sub)) : SubSeq(s, k + 1, k + Len(sub)) = sub

\* s[1:-1]
Slice1m1(s) == SubSeq(s, 2, Len(s) - 1)

\* str.count(c)
Count(s, c) == Cardinality({k \in 1..Len(s) : s[k] = c})

RECURSIVE SplitOn(_, _)
\* str.split(c): the pieces between the occurrences of c, empty ones kept.
SplitOn(s, c) ==
    IF \E k \in 1..Len(s) : s[k] = c
    THEN LET k == CHOOSE j \in 1..Len(s) :
                      s[j] = c /\ \A m \in 1..(j - 1) : s[m] # c
         IN  <<SubSeq(s, 1, k - 1)>> \o SplitOn(SubSeq(s, k + 1, Len(s)), c)
    ELSE <<s>>

\* Python's order on str: by code point, a proper prefix first.
StrLess(a, b) ==
    \E k \in 1..(Len(b)) :
        /\ k <= Len(a) + 1
        /\ \A m \in 1..(k - 1) : a[m] = b[m]
        /\ \/ k = Len(a) + 1
           \/ k <= Len(a) /\ Ord(a[k]) < Ord(b[k])

---------------------------------------------------------------------------
(* split_csv_line                                                          *)

\* One character of the scan while in_quotes.
SplitInQuotes(ln, st) ==
    LET ch == At(ln, st.i) IN
    IF ch = DQ
    THEN IF st.i + 1 < Len(ln) /\ At(ln, st.i + 1) = DQ
         THEN [st EXCEPT !.cur = Append(@, DQ), !.i = @ + 2]
         ELSE [st EXCEPT !.in_quotes = FALSE, !.i = @ + 1]
    ELSE [st EXCEPT !.cur = Append(@, ch), !.i = @ + 1]

\* One character of the scan while not in_quotes.
SplitOutside(ln, st) ==
    LET ch == At(ln, st.i) IN
    IF ch = DQ
    THEN [st EXCEPT !.in_quotes = TRUE, !.i = @ + 1]
    ELSE IF ch = COMMA
    THEN [st EXCEPT !.fields = Append(@, st.cur), !.cur = <<>>, !.i = @ + 1]
    ELSE [st EXCEPT !.cur = Append(@, ch), !.i = @ + 1]

RECURSIVE SplitLoop(_, _)
\* while i < n
SplitLoop(ln, st) ==
    IF st.i < Len(ln)
    THEN SplitLoop(ln, IF st.in_quotes THEN SplitInQuotes(ln, st)
                                       ELSE SplitOutside(ln, st))
    ELSE st

\* The final list comprehension's element for field f.
TrimField(f) ==
    IF Len(f) > 1 /\ f[1] = DQ /\ f[Len(f)] = DQ THEN f ELSE Strip(f)

split_csv_line(ln) ==
    LET st == SplitLoop(ln, [i |-> 0, cur |-> <<>>, fields |-> <<>>,
                             in_quotes |-> FALSE])
        fields == Append(st.fields, st.cur)
    IN  [k \in 1..Len(fields) |-> TrimField(fields[k])]

---------------------------------------------------------------------------
(* iter_csv_rows                                                           *)

\* line = raw_line.rstrip('\n')
RStripNL(raw_line) == RStripSet(raw_line, {NL})

\* AppendLine without the newline between the lines.
AppendLineNoNewline(buf, ln) == buf \o ln

\* buffer = f"{buffer}\n{line}" if buffer else line
AppendLine(buf, ln) == IF buf # <<>> THEN buf \o <<NL>> \o ln ELSE ln

\* quote_count % 2 == 0
Complete(buf) == Count(buf, DQ) % 2 = 0

RECURSIVE NextRow(_, _, _)
\* next(rows): run the generator from raw line p (zero-based) with the given
\* buffer up to its next yield, or to the end of the file.
NextRow(ls, p, buf) ==
    IF p >= Len(ls)
    THEN [yielded |-> FALSE, pos |-> p, row |-> <<>>]
    ELSE LET b == AppendLine(buf, RStripNL(ls[p + 1])) IN
         IF Complete(b)
         THEN [yielded |-> TRUE, pos |-> p + 1, row |-> split_csv_line(b)]
         ELSE NextRow(ls, p + 1, b)

---------------------------------------------------------------------------
(* extract_genres                                                          *)

\* qchar = None
NoQuote == ""

\* The characters of strip('"\'')
QuoteChars == {DQ, SQ}

\* BracketOpen without "cur = ''".
BracketOpenNoReset(inside, st) ==
    [st EXCEPT !.in_q = TRUE, !.qchar = At(inside, st.i), !.i = @ + 1]

\* not in_q and ch in ('"', "'"): a token opens.
BracketOpen(inside, st) ==
    [st EXCEPT !.in_q = TRUE, !.qchar = At(inside, st.i), !.cur = <<>>,
               !.i = @ + 1]

RECURSIVE SkipSeparators(_, _)
\* while i < len(inside) and inside[i] in ', ': i += 1
SkipSeparators(inside, i) ==
    IF i < Len(inside) /\ At(inside, i) \in {COMMA, SP}
    THEN SkipSeparators(inside, i + 1)
    ELSE i

\* in_q: the closing quote ends the token, any other character joins it.
BracketInQuote(inside, st) ==
    LET ch == At(inside, st.i) IN
    IF ch = st.qchar
    THEN [st EXCEPT !.genres = Append(@, st.cur), !.in_q = FALSE,
                    !.qchar = NoQuote,
                    !.i = SkipSeparators(inside, st.i + 1)]
    ELSE [st EXCEPT !.cur = Append(@, ch), !.i = @ + 1]

RECURSIVE FindComma(_, _)
\* while j < len(inside) and inside[j] != ',': j += 1
FindComma(inside, j) ==
    IF j < Len(inside) /\ At(inside, j) # COMMA
    THEN FindComma(inside, j + 1)
    ELSE j

\* The unquoted token branch.
BracketUnquoted(inside, st) ==
    LET j == FindComma(inside, st.i)
        token == StripSet(Strip(SubSeq(inside, st.i + 1, j)), QuoteChars)
    IN  [st EXCEPT !.genres = IF token # <<>> THEN Append(@, token) ELSE @,
                   !.i = j + 1]

RECURSIVE BracketLoop(_, _)
\* while i < len(inside)
BracketLoop(inside, st) ==
    IF st.i < Len(inside)
    THEN BracketLoop(inside,
             IF ~st.in_q /\ At(inside, st.i) \in QuoteChars
             THEN BracketOpen(inside, st)
             ELSE IF st.in_q THEN BracketInQuote(inside, st)
             ELSE BracketUnquoted(inside, st))
    ELSE st

\* The bracketed branch: the list parsed from genre_field[1:-1].strip().
BracketList(field) ==
    BracketLoop(Strip(Slice1m1(field)),
                [i |-> 0, cur |-> <<>>, in_q |-> FALSE, qchar |-> NoQuote,
                 genres |-> <<>>]).genres

\* The fallback: split on commas.
FallbackList(field) ==
    LET pieces == SplitOn(field, COMMA)
        kept == SelectSeq(pieces, LAMBDA g : Strip(g) # <<>>)
    IN  [k \in 1..Len(kept) |-> StripSet(Strip(kept[k]), QuoteChars)]

\* One enclosing pair of double quotes is removed.
Unwrap(field) ==
    IF StartsWith(field, <<DQ>>) /\ EndsWith(field, <<DQ>>)
    THEN Slice1m1(field)
    ELSE field

\* genre_field.startswith('[') and genre_field.endswith(']')
Bracketed(field) == StartsWith(field, <<LBR>>) /\ EndsWith(field, <<RBR>>)

extract_genres(field) ==
    LET f == Unwrap(Strip(field)) IN
    IF Bracketed(f) THEN BracketList(f) ELSE FallbackList(f)

---------------------------------------------------------------------------
(* get_most_common_schedule_by_genre                                       *)

GENRE == <<"g", "e", "n", "r", "e">>
SCHEDULE == <<"s", "c", "h", "e", "d", "u", "l", "e">>
TIME == <<"t", "i", "m", "e">>

\* {} : a dict with no key
EmptyDict == [k \in {} |-> 0]

\* d[key] = val on a dict kept as the sequence of its items in insertion
\* order: a new key is appended, a key already there keeps its place and
\* takes the new value.
DictSet(d, key, val) ==
    IF \E k \in 1..Len(d) : d[k].name = key
    THEN [k \in 1..Len(d) |->
             IF d[k].name = key THEN [name |-> key, idx |-> val] ELSE d[k]]
    ELSE Append(d, [name |-> key, idx |-> val])

RECURSIVE HeaderMapFrom(_, _, _)
HeaderMapFrom(hdr, idx, d) ==
    IF idx >= Len(hdr)
    THEN d
    ELSE HeaderMapFrom(hdr, idx + 1, DictSet(d, Strip(At(hdr, idx)), idx))

\* header_map = {h.strip(): idx for idx, h in enumerate(header)}
HeaderMap(hdr) == HeaderMapFrom(hdr, 0, <<>>)

\* 'genre' in name.lower()
IsGenreName(name) == Contains(Lower(name), GENRE)

\* 'schedule' in name.lower() and 'time' in name.lower()
IsScheduleName(name) ==
    Contains(Lower(name), SCHEDULE) /\ Contains(Lower(name), TIME)

\* The condition of one of the two lookups on a column name.
NameMatches(name, what) ==
    IF what = "genres" THEN IsGenreName(name) ELSE IsScheduleName(name)

\* next((idx for name, idx in header_map.items() if <condition>), None)
FirstMatch(d, what) ==
    IF \E k \in 1..Len(d) : NameMatches(d[k].name, what)
    THEN LET k == CHOOSE j \in 1..Len(d) :
                      /\ NameMatches(d[j].name, what)
                      /\ \A m \in 1..(j - 1) : ~NameMatches(d[m].name, what)
         IN  <<d[k].idx>>
    ELSE <<>>

GenresCol(hdr) == FirstMatch(HeaderMap(hdr), "genres")
ScheduleCol(hdr) == FirstMatch(HeaderMap(hdr), "schedule")

\* HeaderOutcome with the two checks in the other order.
HeaderOutcomeScheduleFirst(gc, sc) ==
    IF sc = <<>> THEN "raise_schedule"
    ELSE IF gc = <<>> THEN "raise_genres"
    ELSE "rows"

\* The two checks after the lookup: which ValueError is raised, if any.
HeaderOutcome(gc, sc) ==
    IF gc = <<>> THEN "raise_genres"
    ELSE IF sc = <<>> THEN "raise_schedule"
    ELSE "rows"

Max(a, b) == IF a >= b THEN a ELSE b

\* max(genres_col, schedule_col) >= len(row)
TooShort(r, gc, sc) == Max(gc, sc) >= Len(r)

\* AddCount with "counts[genre] = {}" in place of setdefault.
AddCountFresh(cnt, genre, time) ==
    [g \in DOMAIN cnt \cup {genre} |->
        IF g = genre THEN [t \in {time} |-> 1] ELSE cnt[g]]

\* genre_counts = counts.setdefault(genre, {})
\* genre_counts[time] = genre_counts.get(time, 0) + 1
AddCount(cnt, genre, time) ==
    LET gcnt == IF genre \in DOMAIN cnt THEN cnt[genre] ELSE EmptyDict
        n == IF time \in DOMAIN gcnt THEN gcnt[time] ELSE 0
    IN  [g \in DOMAIN cnt \cup {genre} |->
            IF g = genre
            THEN [t \in DOMAIN gcnt \cup {time} |->
                     IF t = time THEN n + 1 ELSE gcnt[t]]
            ELSE cnt[g]]

RECURSIVE CountGenres(_, _, _)
\* for genre in genres
CountGenres(cnt, genres, time) ==
    IF genres = <<>>
    THEN cnt
    ELSE CountGenres(IF Head(genres) = <<>>
                     THEN cnt
                     ELSE AddCount(cnt, Head(genres), time),
                     Tail(genres), time)

\* CountRow without the "if not time: continue".
CountRowNoTimeCheck(cnt, r, gc, sc) ==
    IF TooShort(r, gc, sc)
    THEN cnt
    ELSE CountGenres(cnt, extract_genres(At(r, gc)), Strip(At(r, sc)))

\* The body of "for row in rows" for one row.
CountRow(cnt, r, gc, sc) ==
    IF TooShort(r, gc, sc)
    THEN cnt
    ELSE LET time == Strip(At(r, sc)) IN
         IF time = <<>>
         THEN cnt
         ELSE CountGenres(cnt, extract_genres(At(r, gc)), time)

\* (x[1], x[0]) of a is less than that of b, as Python orders tuples.
KeyLess(acount, atime, bcount, btime) ==
    acount < bcount \/ (acount = bcount /\ StrLess(atime, btime))

\* BestTime with min in place of max.
BestTimeMin(tc) ==
    CHOOSE t \in DOMAIN tc :
        \A u \in DOMAIN tc \ {t} : KeyLess(tc[t], t, tc[u], u)

\* max(time_counts.items(), key=lambda x: (x[1], x[0]))[0]
BestTime(tc) ==
    CHOOSE t \in DOMAIN tc :
        \A u \in DOMAIN tc \ {t} : KeyLess(tc[u], u, tc[t], t)

\* The final loop: result[genre] = best_time[0]
Resolve(cnt) == [g \in DOMAIN cnt |-> BestTime(cnt[g])]

---------------------------------------------------------------------------
(* The inputs explored.                                                    *)

\* The largest number of data lines of a file given to the aggregation.
MaxRows == 3

\* The largest number of lines of a file given to the row reader alone.
MaxLines == 4

\* All sequences over S of length at most n.
SeqsUpTo(S, n) == UNION {[1..m -> S] : m \in 0..n}

\* The value of a variable the running function does not use.
Unused == "unused"

\* First lines of the files given to the aggregation.
HeaderLines ==
    {
        \* Genres,Schedule (time)
        << "G", "e", "n", "r", "e", "s", COMMA, "S", "c", "h", "e", "d", "u",
           "l", "e", SP, "(", "t", "i", "m", "e", ")" >>,
        \* Name,Schedule Time,GENRE
        << "N", "a", "m", "e", COMMA, "S", "c", "h", "e", "d", "u", "l", "e",
           SP, "T", "i", "m", "e", COMMA, "G", "E", "N", "R", "E" >>,
        \* Name,Genres
        << "N", "a", "m", "e", COMMA, "G", "e", "n", "r", "e", "s" >>,
        \* Name,Time
        << "N", "a", "m", "e", COMMA, "T", "i", "m", "e" >>,
        \* Schedule (time),Name
        << "S", "c", "h", "e", "d", "u", "l", "e", SP, "(", "t", "i", "m",
           "e", ")", COMMA, "N", "a", "m", "e" >>,
        \* Genres,Genres,Schedule (time)
        << "G", "e", "n", "r", "e", "s", COMMA, "G", "e", "n", "r", "e", "s",
           COMMA, "S", "c", "h", "e", "d", "u", "l", "e", SP, "(", "t", "i",
           "m", "e", ")" >>
    }

\* Later lines of the files given to the aggregation.
DataLines ==
    {
        \* "['Comedy']",8PM
        << DQ, LBR, SQ, "C", "o", "m", "e", "d", "y", SQ, RBR, DQ, COMMA,
           "8", "P", "M" >>,
        \* "['Comedy', 'Drama']",7PM
        << DQ, LBR, SQ, "C", "o", "m", "e", "d", "y", SQ, COMMA, SP, SQ, "D",
           "r", "a", "m", "a", SQ, RBR, DQ, COMMA, "7", "P", "M" >>,
        \* "['Drama', '', 'Drama']",8PM
        << DQ, LBR, SQ, "D", "r", "a", "m", "a", SQ, COMMA, SP, SQ, SQ,
           COMMA, SP, SQ, "D", "r", "a", "m", "a", SQ, RBR, DQ, COMMA, "8",
           "P", "M" >>,
        \* "['Drama']",  
        << DQ, LBR, SQ, "D", "r", "a", "m", "a", SQ, RBR, DQ, COMMA, SP, SP >>,
        \* Comedy
        << "C", "o", "m", "e", "d", "y" >>,
        \* "['Drama'],9PM
        << DQ, LBR, SQ, "D", "r", "a", "m", "a", SQ, RBR, COMMA, "9", "P",
           "M" >>,
        \* Drama,Comedy,8PM
        << "D", "r", "a", "m", "a", COMMA, "C", "o", "m", "e", "d", "y",
           COMMA, "8", "P", "M" >>
    }

\* Lines of the files given to the row reader alone.
ReaderLines ==
    {
        \* (0 characters of white space or none)
        << >>,
        \* "
        << DQ >>,
        \* a
        << "a" >>,
        \* "a
        << DQ, "a" >>,
        \* a,b
        << "a", COMMA, "b" >>,
        \* "",
        << DQ, DQ, COMMA >>,
        \* b"
        << "b", DQ >>
    }

\* The header line names a genre column and a schedule column. The files
\* explored have up to MaxRows data lines after such a header and at most
\* one after another header, where the data lines are never read.
HasBothColumns(h) ==
    /\ \E k \in 1..Len(split_csv_line(h)) : IsGenreName(split_csv_line(h)[k])
    /\ \E k \in 1..Len(split_csv_line(h)) :
           IsScheduleName(split_csv_line(h)[k])

\* The raw lines the file object yields for these lines of text: each ends
\* with a newline, the last one only when the file ends with one.
RawLines(text, final_newline) ==
    [k \in 1..Len(text) |->
        IF k < Len(text) \/ final_newline THEN text[k] \o <<NL>> ELSE text[k]]

---------------------------------------------------------------------------
(* Specification Spec: get_most_common_schedule_by_genre on a file.        *)

ReaderUnused == buffer = Unused /\ emitted = Unused
SplitUnused == line = Unused /\ fields_out = Unused
GenresUnused == shape = Unused /\ genre_field = Unused /\ genres_out = Unused
AggUnused ==
    /\ header = Unused /\ genres_col = Unused /\ schedule_col = Unused
    /\ row = Unused /\ counts = Unused /\ result = Unused

Init ==
    /\ lines \in {<<>>} \cup
           UNION {{RawLines(<<h>> \o d, TRUE) :
                      d \in SeqsUpTo(DataLines,
                                    IF HasBothColumns(h) THEN MaxRows ELSE 1)} :
                  h \in HeaderLines}
    /\ pos = 0
    /\ pc = "start"
    /\ header = <<>>
    /\ genres_col = <<>>
    /\ schedule_col = <<>>
    /\ row = <<>>
    /\ counts = EmptyDict
    /\ result = EmptyDict
    /\ ReaderUnused /\ SplitUnused /\ GenresUnused

\* From the call to the first "for row in rows": the header is read and the
\* two columns are looked up; an empty file returns {}, a missing column
\* raises ValueError.
ReadHeader ==
    /\ pc = "start"
    /\ LET r == NextRow(lines, pos, <<>>) IN
       /\ pos' = r.pos
       /\ IF ~r.yielded
          THEN /\ pc' = "done"
               /\ result' = EmptyDict
               /\ UNCHANGED <<header, genres_col, schedule_col>>
          ELSE /\ header' = r.row
               /\ genres_col' = GenresCol(r.row)
               /\ schedule_col' = ScheduleCol(r.row)
               /\ pc' = HeaderOutcome(GenresCol(r.row), ScheduleCol(r.row))
               /\ UNCHANGED result
    /\ UNCHANGED <<lines, row, counts, buffer, emitted, line, fields_out,
                   shape, genre_field, genres_out>>

\* One iteration of "for row in rows".
ProcessRow ==
    /\ pc = "rows"
    /\ LET r == NextRow(lines, pos, <<>>) IN
       /\ r.yielded
       /\ pos' = r.pos
       /\ row' = r.row
       /\ counts' = CountRow(counts, r.row, genres_col[1], schedule_col[1])
    /\ UNCHANGED <<lines, pc, header, genres_col, schedule_col, result,
                   buffer, emitted, line, fields_out, shape, genre_field,
                   genres_out>>

\* The rows are exhausted: the result is built and returned.
Finish ==
    /\ pc = "rows"
    /\ LET r == NextRow(lines, pos, <<>>) IN
       /\ ~r.yielded
       /\ pos' = r.pos
    /\ result' = Resolve(counts)
    /\ pc' = "done"
    /\ UNCHANGED <<lines, header, genres_col, schedule_col, row, counts,
                   buffer, emitted, line, fields_out, shape, genre_field,
                   genres_out>>

Next == ReadHeader \/ ProcessRow \/ Finish

Spec == Init /\ [][Next]_vars

---------------------------------------------------------------------------
(* Specification SpecRows: iter_csv_rows drained by its caller.            *)

InitRows ==
    /\ \E text \in SeqsUpTo(ReaderLines, MaxLines), final_newline \in BOOLEAN :
          /\ final_newline \/ (text # <<>> /\ text[Len(text)] # <<>>)
          /\ lines = RawLines(text, final_newline)
    /\ pos = 0
    /\ buffer = <<>>
    /\ emitted = <<>>
    /\ pc = "reading"
    /\ AggUnused /\ SplitUnused /\ GenresUnused

\* One iteration of "for raw_line in f". A yielded record is kept in
\* emitted with the text of the buffer it was split from.
ReadLine ==
    /\ pc = "reading"
    /\ pos < Len(lines)
    /\ LET b == AppendLine(buffer, RStripNL(lines[pos + 1])) IN
       IF Complete(b)
       THEN /\ emitted' = Append(emitted,
                                 [text |-> b, fields |-> split_csv_line(b)])
            /\ buffer' = <<>>
       ELSE /\ buffer' = b
            /\ UNCHANGED emitted
    /\ pos' = pos + 1
    /\ UNCHANGED <<lines, pc, header, genres_col, schedule_col, row, counts,
                   result, line, fields_out, shape, genre_field, genres_out>>

\* The file is exhausted: the generator ends, whatever the buffer holds.
EndOfInput ==
    /\ pc = "reading"
    /\ pos = Len(lines)
    /\ pc' = "exhausted"
    /\ UNCHANGED <<lines, pos, buffer, emitted, header, genres_col,
                   schedule_col, row, counts, result, line, fields_out,
                   shape, genre_field, genres_out>>

NextRows == ReadLine \/ EndOfInput

SpecRows == InitRows /\ [][NextRows]_vars

---------------------------------------------------------------------------
(* Specification SpecSplit: split_csv_line on one complete record.         *)

\* The largest number of fields of a record given to the splitter.
MaxFields == 3

\* The largest number of characters between the quotes of a quoted field.
MaxContentLen == 3

\* The characters a quoted field is written with.
ContentChars == {SP, COMMA, "a", DQ}

\* The fields written without quotes.
PlainFields == {<< >>, << "b" >>, << SP, "c" >>}

RECURSIVE Escape(_)
\* The content of a quoted field as written: each quote doubled.
Escape(content) ==
    IF content = <<>>
    THEN <<>>
    ELSE (IF Head(content) = DQ THEN <<DQ, DQ>> ELSE <<Head(content)>>)
         \o Escape(Tail(content))

\* A field as written in the record.
WrittenField(f) ==
    IF f.quoted THEN <<DQ>> \o Escape(f.content) \o <<DQ>> ELSE f.content

RECURSIVE WrittenRecord(_)
\* The fields as written, joined by commas.
WrittenRecord(fs) ==
    IF Len(fs) = 1
    THEN WrittenField(fs[1])
    ELSE WrittenField(fs[1]) \o <<COMMA>> \o WrittenRecord(Tail(fs))

\* Records of up to maxFields fields, one of them quoted with a content of
\* up to maxLen characters.
RecordShapes(maxFields, maxLen) ==
    UNION {
        {[k \in 1..n |-> IF k = q
                         THEN [quoted |-> TRUE, content |-> c]
                         ELSE [quoted |-> FALSE, content |-> plain[k]]] :
            q \in 1..n,
            c \in SeqsUpTo(ContentChars, maxLen),
            plain \in [1..n -> PlainFields]} :
        n \in 1..maxFields}

InitSplit ==
    /\ shape \in RecordShapes(MaxFields, MaxContentLen)
    /\ line = WrittenRecord(shape)
    /\ fields_out = <<>>
    /\ pc = "call"
    /\ lines = Unused /\ pos = Unused
    /\ genre_field = Unused /\ genres_out = Unused
    /\ AggUnused /\ ReaderUnused

\* The call of split_csv_line(line).
Split ==
    /\ pc = "call"
    /\ fields_out' = split_csv_line(line)
    /\ pc' = "returned"
    /\ UNCHANGED <<lines, pos, buffer, emitted, header, genres_col,
                   schedule_col, row, counts, result, line, shape,
                   genre_field, genres_out>>

NextSplit == Split

SpecSplit == InitSplit /\ [][NextSplit]_vars

---------------------------------------------------------------------------
(* Specification SpecGenres: extract_genres on one genre field.            *)

\* The largest number of tokens of a bracketed list.
MaxTokens == 2

\* The largest number of characters of a genre field written freely.
MaxFieldLen == 4

\* The characters a genre field is written with freely.
FieldChars == {"a", COMMA, SP, SQ, DQ, LBR, RBR}

\* The quoted tokens of the bracketed lists: the quote character and the
\* content, which does not hold that quote character.
ListTokens ==
    { [q |-> SQ, c |-> << "A" >>],
      [q |-> DQ, c |-> << "B" >>],
      [q |-> SQ, c |-> << "a", COMMA, SP, "b" >>],
      [q |-> SQ, c |-> << >>],
      [q |-> DQ, c |-> << "x", SQ, RBR >>] }

\* What stands between two tokens.
ListSeparators == { << COMMA >>, << COMMA, SP >>, << SP, COMMA, SP >> }

\* White space around the field.
Padding == { << >>, << SP >> }

RECURSIVE WrittenTokens(_, _)
\* The tokens as written, each after the first preceded by its separator.
WrittenTokens(ts, first) ==
    IF ts = <<>>
    THEN <<>>
    ELSE (IF first THEN <<>> ELSE Head(ts).sep)
         \o <<Head(ts).q>> \o Head(ts).c \o <<Head(ts).q>>
         \o WrittenTokens(Tail(ts), FALSE)

\* A bracketed list as written.
WrittenList(sh) ==
    sh.lead \o (IF sh.wrapped THEN <<DQ>> ELSE <<>>) \o <<LBR>>
    \o WrittenTokens(sh.tokens, TRUE)
    \o <<RBR>> \o (IF sh.wrapped THEN <<DQ>> ELSE <<>>) \o sh.trail

\* Bracketed lists of up to maxTokens tokens.
ListShapes(maxTokens) ==
    { [kind |-> "list", lead |-> ld, trail |-> tr, wrapped |-> w,
       tokens |-> ts] :
        ld \in Padding, tr \in Padding, w \in BOOLEAN,
        ts \in SeqsUpTo({[q |-> t.q, c |-> t.c, sep |-> sp] :
                            t \in ListTokens, sp \in ListSeparators},
                        maxTokens) }

InitGenres ==
    /\ \/ /\ shape \in ListShapes(MaxTokens)
          /\ genre_field = WrittenList(shape)
       \/ /\ shape = [kind |-> "free"]
          /\ genre_field \in SeqsUpTo(FieldChars, MaxFieldLen)
    /\ genres_out = <<>>
    /\ pc = "call"
    /\ lines = Unused /\ pos = Unused
    /\ AggUnused /\ ReaderUnused /\ SplitUnused

\* The call of extract_genres(genre_field).
Extract ==
    /\ pc = "call"
    /\ genres_out' = extract_genres(genre_field)
    /\ pc' = "returned"
    /\ UNCHANGED <<lines, pos, buffer, emitted, header, genres_col,
                   schedule_col, row, counts, result, line, fields_out,
                   shape, genre_field>>

NextGenres == Extract

SpecGenres == InitGenres /\ [][NextGenres]_vars

---------------------------------------------------------------------------
(* Properties of get_most_common_schedule_by_genre (specification Spec).   *)

\* The schedule values of a genre whose count no other value exceeds.
TopTimes(tc) == {t \in DOMAIN tc : \A u \in DOMAIN tc : tc[u] <= tc[t]}

\* C1: when two or more schedule values of a genre are tied for the highest
\* count, the returned mapping holds the lexicographically smallest of them.
C1_TieBreakSmallest ==
    pc = "done" =>
        \A g \in DOMAIN counts :
            Cardinality(TopTimes(counts[g])) >= 2 =>
                /\ g \in DOMAIN result
                /\ result[g] \in TopTimes(counts[g])
                /\ \A t \in TopTimes(counts[g]) \ {result[g]} :
                       StrLess(result[g], t)

\* C2: the returned mapping has exactly the keys of the frequency table, each
\* of which has a counted schedule value, and the value stored for a genre is
\* a schedule value of that genre whose count no other value exceeds.
C2_ResultIsMostCommon ==
    pc = "done" =>
        /\ DOMAIN result = DOMAIN counts
        /\ \A g \in DOMAIN counts :
               /\ \E t \in DOMAIN counts[g] : counts[g][t] >= 1
               /\ result[g] \in DOMAIN counts[g]
               /\ \A u \in DOMAIN counts[g] :
                      counts[g][u] <= counts[g][result[g]]

\* A result was returned for a genre whose schedule values have different
\* counts, beside another genre.
C2_Witness ==
    /\ pc = "done"
    /\ Cardinality(DOMAIN result) >= 2
    /\ \E g \in DOMAIN counts : \E t, u \in DOMAIN counts[g] :
           counts[g][t] < counts[g][u] /\ result[g] = u

\* The smallest zero-based position of the header whose trimmed name
\* contains "genre" (what = "genres"), or "schedule" and "time", in lower
\* case, as <<position>>, or <<>> when there is none.
FirstPosition(hdr, what) ==
    LET good == {k \in 0..(Len(hdr) - 1) :
                    LET name == Lower(Strip(At(hdr, k))) IN
                    IF what = "genres"
                    THEN Contains(name, GENRE)
                    ELSE Contains(name, SCHEDULE) /\ Contains(name, TIME)}
    IN  IF good = {}
        THEN <<>>
        ELSE <<CHOOSE k \in good : \A m \in good : k <= m>>

\* C3: the genre column is the smallest position of the header whose
\* trimmed name contains "genre", the schedule column the smallest one whose
\* trimmed name contains "schedule" and "time", names compared in lower case.
C3_FirstMatchingPosition ==
    header # <<>> =>
        /\ genres_col = FirstPosition(header, "genres")
        /\ schedule_col = FirstPosition(header, "schedule")

\* No column of the header can serve as the genre (schedule) column.
NoGenreColumn(hdr) == \A k \in 1..Len(hdr) : ~IsGenreName(hdr[k])
NoScheduleColumn(hdr) == \A k \in 1..Len(hdr) : ~IsScheduleName(hdr[k])

\* C6: a header without a genre column ends in the genre error, also when the
\* schedule column is missing too; a header with a genre column and without
\* a schedule column ends in the schedule error; in both cases no row is
\* read or counted and nothing is returned.
C6_MissingColumnErrors ==
    header # <<>> =>
        LET noGenre == NoGenreColumn(header)
            noSchedule == NoScheduleColumn(header)
        IN  /\ noGenre =>
                   /\ pc = "raise_genres"
                   /\ row = <<>> /\ counts = EmptyDict /\ result = EmptyDict
            /\ ~noGenre /\ noSchedule =>
                   /\ pc = "raise_schedule"
                   /\ row = <<>> /\ counts = EmptyDict /\ result = EmptyDict
            /\ ~noGenre /\ ~noSchedule => pc \in {"rows", "done"}

\* The genre error was raised for a header that lacks both columns, in a file
\* that has data lines.
C6_Witness ==
    /\ pc = "raise_genres"
    /\ NoGenreColumn(header) /\ NoScheduleColumn(header)
    /\ Len(lines) > 1

\* The row is skipped: it does not reach the larger of the two columns, or
\* its schedule field is empty once trimmed.
Skipped(r) ==
    \/ Len(r) <= Max(genres_col[1], schedule_col[1])
    \/ Strip(At(r, schedule_col[1])) = <<>>

\* C7: a step that reads a skipped row leaves the counts as they were, raises
\* nothing and stays in the loop.
C7_SkippedRowKeepsCounts ==
    [][ (/\ pc = "rows"
         /\ NextRow(lines, pos, <<>>).yielded
         /\ Skipped(NextRow(lines, pos, <<>>).row))
        => (/\ counts' = counts
            /\ pc' = "rows"
            /\ row' = NextRow(lines, pos, <<>>).row) ]_vars

\* A row with an empty schedule field was just skipped, after rows that were
\* counted.
C7_Witness ==
    /\ pc = "rows"
    /\ row # <<>>
    /\ Len(row) > Max(genres_col[1], schedule_col[1])
    /\ Strip(At(row, schedule_col[1])) = <<>>
    /\ counts # EmptyDict

RECURSIVE RowsFrom(_, _)
\* The rows the reader yields from raw line p (zero-based) on.
RowsFrom(ls, p) ==
    LET r == NextRow(ls, p, <<>>) IN
    IF r.yielded THEN <<r.row>> \o RowsFrom(ls, r.pos) ELSE <<>>

\* The data rows read so far: the rows of the lines consumed, less the header.
ProcessedRows == Tail(RowsFrom(SubSeq(lines, 1, pos), 0))

\* The processed rows that were not skipped.
CountedRows == SelectSeq(ProcessedRows, LAMBDA r : ~Skipped(r))

\* What a row contributes: its trimmed schedule value and its genre list.
Tally(r) ==
    [time |-> Strip(At(r, schedule_col[1])),
     genres |-> extract_genres(At(r, genres_col[1]))]

\* How often g occurs in the genre list gs.
Occurrences(gs, g) == Cardinality({k \in 1..Len(gs) : gs[k] = g})

RECURSIVE TotalOccurrences(_, _, _)
\* The occurrences of g in the tallies ts whose schedule value is s.
TotalOccurrences(ts, g, s) ==
    IF ts = <<>>
    THEN 0
    ELSE (IF Head(ts).time = s THEN Occurrences(Head(ts).genres, g) ELSE 0)
         + TotalOccurrences(Tail(ts), g, s)

\* The stored count of (g, s): 0 when there is no entry.
Stored(g, s) ==
    IF g \in DOMAIN counts /\ s \in DOMAIN counts[g] THEN counts[g][s] ELSE 0

\* C8: after any number of rows, the stored count of every non-empty genre g
\* and schedule value s is the number of occurrences of g in the genre lists
\* of the rows read so far that were not skipped and whose trimmed schedule
\* value is s, and an entry is stored only where that number is at least 1.
C8_CountsAreOccurrences ==
    pc \in {"rows", "done"} /\ header # <<>> =>
        LET rows == CountedRows
            ts == [k \in 1..Len(rows) |-> Tally(rows[k])]
            seenGenres == UNION {{ts[k].genres[j] : j \in 1..Len(ts[k].genres)} :
                                 k \in 1..Len(ts)}
            seenTimes == {ts[k].time : k \in 1..Len(ts)}
        IN  /\ \A g \in (seenGenres \cup DOMAIN counts) \ {<<>>} :
                   \A s \in seenTimes \cup
                            UNION {DOMAIN counts[h] : h \in DOMAIN counts} :
                       Stored(g, s) = TotalOccurrences(ts, g, s)
            /\ <<>> \notin DOMAIN counts
            /\ \A g \in DOMAIN counts : \A s \in DOMAIN counts[g] :
                   TotalOccurrences(ts, g, s) >= 1

\* The one counted row alone raised a count to 2, before a skipped row.
C8_Witness ==
    /\ pc = "rows"
    /\ Len(ProcessedRows) = 2
    /\ Len(CountedRows) = 1
    /\ ~Skipped(ProcessedRows[1])
    /\ \E g \in DOMAIN counts : \E s \in DOMAIN counts[g] : counts[g][s] >= 2

---------------------------------------------------------------------------
(* Properties of iter_csv_rows (specification SpecRows).                   *)

RECURSIVE LinesOf(_)
\* The lines of the records rs, each record taken apart at its newlines.
LinesOf(rs) ==
    IF rs = <<>> THEN <<>> ELSE SplitOn(Head(rs), NL) \o LinesOf(Tail(rs))

RECURSIVE QuotesIn(_, _)
\* The number of double quotes in the first j of the lines ls.
QuotesIn(ls, j) ==
    IF j = 0 THEN 0 ELSE Count(ls[j], DQ) + QuotesIn(ls, j - 1)

\* The record ends at the first of its lines at which the quote count of the
\* lines so far is even.
EndsAtFirstEven(text) ==
    LET ls == SplitOn(text, NL) IN
    /\ QuotesIn(ls, Len(ls)) % 2 = 0
    /\ \A j \in 1..(Len(ls) - 1) : QuotesIn(ls, j) % 2 = 1

\* The run is still open: after each of its lines the quote count is odd.
StillOpen(text) ==
    LET ls == SplitOn(text, NL) IN
    \A j \in 1..Len(ls) : QuotesIn(ls, j) % 2 = 1

\* C9: the records emitted so far, followed by the buffered run if there is
\* one, are the newline-joins of consecutive runs of the lines read so far,
\* in input order, every line in exactly one of them; each emitted record
\* ends at the first line at which its quote count is even; the buffered
\* run has an odd quote count after each of its lines; at the end of the
\* input all lines were read and the buffered run is left out of the records.
C9_RecordsAreRunsOfLines ==
    pc \in {"reading", "exhausted"} =>
        LET texts == [k \in 1..Len(emitted) |-> emitted[k].text]
            pending == IF buffer = <<>> THEN <<>> ELSE <<buffer>>
        IN  /\ LinesOf(texts \o pending)
                   = [k \in 1..pos |-> RStripNL(lines[k])]
            /\ \A k \in 1..Len(texts) : EndsAtFirstEven(texts[k])
            /\ buffer # <<>> => StillOpen(buffer)
            /\ pc = "exhausted" => pos = Len(lines)

\* The input ended after two records, one of them of two lines, and a
\* buffered line that was dropped.
C9_Witness ==
    /\ pc = "exhausted"
    /\ Len(emitted) = 2
    /\ \E k \in 1..2 : Count(emitted[k].text, NL) = 1
    /\ buffer # <<>>

---------------------------------------------------------------------------
(* Properties of split_csv_line (specification SpecSplit).                 *)

\* C4: a quoted field whose content holds a comma is returned as one
\* element, equal to the content between its quotes with doubled quotes
\* collapsed: not split at the comma and not trimmed.
C4_QuotedFieldVerbatim ==
    pc = "returned" =>
        \A k \in 1..Len(shape) :
            (shape[k].quoted /\ \E j \in 1..Len(shape[k].content) :
                                    shape[k].content[j] = COMMA)
            => /\ k <= Len(fields_out)
               /\ fields_out[k] = shape[k].content

---------------------------------------------------------------------------
(* Properties of extract_genres (specification SpecGenres).                *)

\* C5: a bracketed list of quoted tokens, wrapped in double quotes or not and
\* with white space around it or not, gives the contents of its tokens in
\* order, duplicates kept.
C5_BracketedListTokens ==
    (pc = "returned" /\ shape.kind = "list") =>
        genres_out = [k \in 1..Len(shape.tokens) |-> shape.tokens[k].c]

\* A list wrapped in double quotes with the same token twice was extracted.
C5_Witness ==
    /\ pc = "returned"
    /\ shape.kind = "list"
    /\ shape.wrapped
    /\ Len(shape.tokens) = 2
    /\ shape.tokens[1].c = shape.tokens[2].c
    /\ shape.tokens[1].c # <<>>
    /\ Len(genres_out) = 2

\* C10: a field that is not bracketed once trimmed and unwrapped gives its
\* comma-separated pieces, each trimmed of white space and of surrounding
\* quote characters, the empty ones left out: no element is empty.
C10_FallbackNonEmptyPieces ==
    (pc = "returned" /\ ~Bracketed(Unwrap(Strip(genre_field)))) =>
        LET pieces == SplitOn(Unwrap(Strip(genre_field)), COMMA)
            trimmed == [k \in 1..Len(pieces) |->
                           StripSet(Strip(pieces[k]), QuoteChars)]
        IN  /\ genres_out = SelectSeq(trimmed, LAMBDA g : g # <<>>)
            /\ \A k \in 1..Len(genres_out) : genres_out[k] # <<>>

=============================================================================
